---- MODULE Spec2Model ----
(***************************************************************************)
(* WhereTo backend: the intent extractor (backend/intent.py), the          *)
(* candidate locator (backend/places_api.py) and the ranker                *)
(* (backend/ranking.py), each modelled as the state machine of one call.   *)
(*                                                                         *)
(* Conventions                                                             *)
(*   - a string the code inspects character by character (the query, a     *)
(*     keyword) is a sequence of one-character strings;                    *)
(*   - a score is kept in thousandths of a point (0.1 -> 100, 2.0 -> 2000, *)
(*     (1000 - d) / 500.0 -> 2 * (1000 - d)), a rating in tenths of a star,*)
(*     with 0 for the falsy ratings (None, 0);                             *)
(*   - a reason string is the sequence of the segments that the code joins *)
(*     with " * ", each segment a tuple of its text and its number.        *)
(***************************************************************************)
EXTENDS Integers, Sequences, FiniteSets, TLC

VARIABLES
    \* extract_intent
    in_pc,          \* "idle" | "start" | "fallback" | "done" | "raised"
    query,          \* the query argument
    openai_key,     \* whether OPENAI_API_KEY is set
    llm_calls,      \* number of classifier calls issued
    llm_response,   \* the classifier's answer to the call, once issued
    in_result,      \* the returned intent
    \* search_nearby
    sn_pc,          \* "idle" | "start" | "pass1" | "pass2" | "dedupe" | "done" | "raised"
    api_key,        \* whether GOOGLE_MAPS_API_KEY is set
    sn_intent,      \* the intent argument
    idx,            \* position of the running for loop in place_types
    all_places,     \* the running candidate list
    ideal_places,   \* the list built had every failed request answered OK with no results
    requests,       \* per place type, the requests issued: [pass, failed] records in order
    consumed1,      \* place_ids appended during pass 1
    skipped_fresh,  \* whether pass 2 has skipped a result that pass 1 never appended
    sn_result,      \* the returned list
    \* rank
    rk_pc,          \* "idle" | "start" | "scored" | "sorted" | "stripped" | "done"
    places,         \* the input list: the dict objects, mutated in place
    scene_tags,     \* the scene_tags argument
    ranked_places,  \* sorted(...): indices into places (the same dict objects)
    rk_result,      \* the returned list: indices into places
    \* calculate_score on two candidates that differ only in distance_m
    sc_pc,          \* "idle" | "start" | "done"
    sc_place,       \* the candidate, distance_m aside
    sc_tags,        \* the scene tags
    sc_d1, sc_d2,   \* the two distances
    sc_s1, sc_s2    \* the two scores

intentVars == <<in_pc, query, openai_key, llm_calls, llm_response, in_result>>
searchVars == <<sn_pc, api_key, sn_intent, idx, all_places, ideal_places, requests, consumed1, skipped_fresh, sn_result>>
rankVars == <<rk_pc, places, scene_tags, ranked_places, rk_result>>
scoreVars == <<sc_pc, sc_place, sc_tags, sc_d1, sc_d2, sc_s1, sc_s2>>
vars == <<intentVars, searchVars, rankVars, scoreVars>>

(***************************************************************************)
(* Bounds                                                                  *)
(***************************************************************************)
MaxQueryLen == 3
NumIds == 7
MaxResults == 4
MaxRankInput == 4

(***************************************************************************)
(* Helpers on sequences                                                    *)
(***************************************************************************)
Range(s) == {s[i] : i \in 1..Len(s)}

SeqsUpTo(S, n) == UNION {[1..k -> S] : k \in 0..n}

Take(s, n) == SubSeq(s, 1, IF Len(s) < n THEN Len(s) ELSE n)

(***************************************************************************)
(* The category-mapping configuration, vibe_mapper.json: intent ->         *)
(* {keywords, types}, in file order (json.load keeps it).  The file is     *)
(* external configuration; this is a configuration of three intents whose  *)
(* keywords overlap and whose type lists have one, two and three entries.  *)
(***************************************************************************)
VIBE_MAPPER == <<
    [intent |-> "quiet_study", keywords |-> {<<"s", "t">>},
     types |-> <<"library", "cafe">>],
    [intent |-> "sports", keywords |-> {<<"t", "s">>, <<"p">>},
     types |-> <<"park", "gym", "stadium">>],
    [intent |-> "nightlife", keywords |-> {<<"s", "p">>, <<"t", "t">>},
     types |-> <<"bar">>] >>

INTENTS == {VIBE_MAPPER[i].intent : i \in 1..Len(VIBE_MAPPER)}

(***************************************************************************)
(* extract_intent                                                          *)
(***************************************************************************)
Alphabet == {"s", "t", "p", "S", "x"}

\* str.lower() on one character
LowerChar(c) == IF c = "S" THEN "s" ELSE c

\* str.lower()
Lower(s) == [i \in 1..Len(s) |-> LowerChar(s[i])]

\* keyword in query_lower: substring test
Contains(s, k) == \E i \in 0..(Len(s) - Len(k)) : SubSeq(s, i + 1, i + Len(k)) = k

\* any(keyword in query_lower for keyword in keywords)
AnyKeyword(config, q) == \E k \in config.keywords : Contains(q, k)

\* the positions of VIBE_MAPPER whose keywords match the lower-cased query
Matching(q) == {i \in 1..Len(VIBE_MAPPER) : AnyKeyword(VIBE_MAPPER[i], Lower(q))}

\* (variant: the loop keeps going and the last match wins)
KeywordIntentLast(q) == VIBE_MAPPER[CHOOSE i \in Matching(q) : \A j \in Matching(q) : j <= i].intent

\* the for loop over VIBE_MAPPER.items(): the first match returns
KeywordIntent(q) == VIBE_MAPPER[CHOOSE i \in Matching(q) : \A j \in Matching(q) : i <= j].intent

\* What the classifier call can do: raise (the import, the request, a timeout),
\* answer text that json.loads rejects, or answer JSON: without an "intent"
\* field, or with one, naming a known intent or not.
LLMExceptions == {"ImportError", "APIError", "Timeout", "JSONDecodeError"}

LLMIntents == INTENTS \cup {"party_time", "unclear_intent"}

NoResponse == [kind |-> "none", exc |-> "", intent |-> ""]

LLMResponses ==
    {[kind |-> "raises", exc |-> e, intent |-> ""] : e \in LLMExceptions}
    \cup {[kind |-> "nofield", exc |-> "", intent |-> ""]}
    \cup {[kind |-> "json", exc |-> "", intent |-> i] : i \in LLMIntents}

\* (variant: only the parse error is caught)
CaughtNarrow(exc) == exc = "JSONDecodeError"

\* except Exception: every exception the try block raises is caught
Caught(exc) == exc \in LLMExceptions

\* the try block: the value it returns, or "" when control falls through
TryReturn(resp) == IF resp.kind = "json" /\ resp.intent \in INTENTS THEN resp.intent ELSE ""

\* lines 28-34: keyword matching
KeywordMatch ==
    /\ in_pc = "start"
    /\ IF Matching(query) # {}
       THEN /\ in_result' = KeywordIntent(query)
            /\ in_pc' = "done"
       ELSE /\ in_result' = in_result
            /\ in_pc' = "fallback"
    /\ UNCHANGED <<query, openai_key, llm_calls, llm_response>>
    /\ UNCHANGED <<searchVars, rankVars, scoreVars>>

\* lines 37-59 without a credential: the default
FallbackNoKey ==
    /\ in_pc = "fallback"
    /\ ~openai_key
    /\ in_result' = "unclear_intent"
    /\ in_pc' = "done"
    /\ UNCHANGED <<query, openai_key, llm_calls, llm_response>>
    /\ UNCHANGED <<searchVars, rankVars, scoreVars>>

\* lines 37-59 with a credential: one classifier call, then the default
FallbackLLM ==
    /\ in_pc = "fallback"
    /\ openai_key
    /\ \E resp \in LLMResponses :
        /\ llm_response' = resp
        /\ llm_calls' = llm_calls + 1
        /\ IF resp.kind = "raises" /\ ~Caught(resp.exc)
           THEN /\ in_pc' = "raised"
                /\ in_result' = in_result
           ELSE /\ in_pc' = "done"
                /\ in_result' = IF TryReturn(resp) # "" THEN TryReturn(resp) ELSE "unclear_intent"
    /\ UNCHANGED <<query, openai_key>>
    /\ UNCHANGED <<searchVars, rankVars, scoreVars>>

NextIntent == KeywordMatch \/ FallbackNoKey \/ FallbackLLM

(***************************************************************************)
(* search_nearby                                                           *)
(***************************************************************************)
\* line 98: "Max 3 places per type"
PerType == 3

\* line 157: "Skip first 3 (already processed)"
SkipFirst == 3

\* lines 128, 130, 155: the second pass fills up to 6 places
FillTarget == 6

\* line 194: "Limit to 6 candidates"
MaxPlaces == 6

Min(a, b) == IF a < b THEN a ELSE b

Max(a, b) == IF a < b THEN b ELSE a

TYPES == UNION {Range(VIBE_MAPPER[i].types) : i \in 1..Len(VIBE_MAPPER)}

SearchIntents == INTENTS \cup {"unknown_vibe"}

\* VIBE_MAPPER[intent]["types"]
PlaceTypes(intent) == VIBE_MAPPER[CHOOSE i \in 1..Len(VIBE_MAPPER) : VIBE_MAPPER[i].intent = intent].types

\* A directory listing: n place_ids of the directory's NumIds places, from
\* `start` on in steps of `stride` (stride 0 repeats one place_id).
Listing(start, stride, n) == [i \in 1..n |-> ((start - 1 + stride * (i - 1)) % NumIds) + 1]

\* What the directory may list for the c-th place type of an intent: the
\* listings of neighbouring types overlap, a listing may start one place later
\* from one request to the next, and it may repeat a place.
Listings(c) ==
    {Listing(2 * c - 1 + shift, 1, n) : shift \in 0..1, n \in 0..MaxResults}
    \cup {Listing(2 * c - 1, 0, n) : n \in 0..MaxResults}

RequestExceptions == {"Timeout", "ConnectionError", "JSONDecodeError"}

\* What requests.get(...).json() can do: raise, or give data with a status and
\* results; `bad` is the position of the first record whose geometry cannot be
\* read (place_data["geometry"]["location"]["lat"] raises), 0 for none.
Responses(c) ==
    {[kind |-> "exc", exc |-> e, status |-> "", results |-> <<>>, bad |-> 0] : e \in RequestExceptions}
    \cup {[kind |-> "data", exc |-> "", status |-> "REQUEST_DENIED", results |-> r, bad |-> 0] : r \in Listings(c)}
    \cup {[kind |-> "data", exc |-> "", status |-> "OK", results |-> r, bad |-> b] :
            r \in Listings(c), b \in 0..MaxResults}

\* the request failed: it raised, or answered a non-OK status
Failed(resp) == resp.kind = "exc" \/ resp.status # "OK"

OKEmpty == [kind |-> "data", exc |-> "", status |-> "OK", results |-> <<>>, bad |-> 0]

IdealResponse(resp) == IF Failed(resp) THEN OKEmpty ELSE resp

\* except Exception as e (lines 123-125, 183-185)
CaughtByExcept(exc) == exc \in RequestExceptions

\* place_data, as far as the control flow reads it
PlaceData(id, type) == [place_id |-> id, type |-> type]

\* the first n records of a response as place_data, offset `from`
Records(resp, type, from, n) == [i \in 1..n |-> PlaceData(resp.results[from + i], type)]

\* the number of records processed before a malformed one raises, of `n`
\* records starting after position `from`
UntilBad(resp, from, n) == IF resp.bad > from /\ resp.bad <= from + n THEN resp.bad - from - 1 ELSE n

\* (variant: the status is not checked)
Pass1AppendAnyStatus(ps, type, resp) == IF resp.kind = "exc" THEN ps ELSE ps \o Records(resp, type, 0, UntilBad(resp, 0, Min(PerType, Len(resp.results))))

\* lines 75-125: one place type in pass 1
Pass1Append(ps, type, resp) ==
    IF resp.kind = "exc" THEN ps
    ELSE IF resp.status # "OK" THEN ps
    ELSE ps \o Records(resp, type, 0, UntilBad(resp, 0, Min(PerType, Len(resp.results))))

\* lines 133-185: one place type in pass 2
Pass2Append(ps, type, resp) ==
    IF resp.kind = "exc" THEN ps
    ELSE IF resp.status # "OK" THEN ps
    ELSE LET rest == Max(0, Len(resp.results) - SkipFirst)
             room == Max(0, FillTarget - Len(ps))
         IN ps \o Records(resp, type, SkipFirst, UntilBad(resp, SkipFirst, Min(rest, room)))

\* lines 154-159: the place_ids pass 2 skips
Pass2Skipped(ps, resp) ==
    IF Failed(resp) \/ Len(ps) >= FillTarget THEN {}
    ELSE Range(Take(resp.results, SkipFirst))

\* (variant: a failed request is issued again)
NextIdxRetry(i, resp) == IF Failed(resp) THEN i ELSE i + 1

\* the for loop moves to the next place type, whatever the request did
NextIdx(i, resp) == i + 1

RECURSIVE DedupeFrom(_, _, _, _)
DedupeFrom(s, i, seen, out) ==
    IF i > Len(s) \/ Len(out) >= MaxPlaces THEN out
    ELSE IF s[i].place_id \in seen THEN DedupeFrom(s, i + 1, seen, out)
    ELSE DedupeFrom(s, i + 1, seen \cup {s[i].place_id}, Append(out, s[i]))

\* (variant: the limit alone)
DedupeLimitOnly(s) == Take(s, MaxPlaces)

\* lines 188-197: remove duplicates by place_id and limit results
Dedupe(s) == DedupeFrom(s, 1, {}, <<>>)

NoRequests == [t \in TYPES |-> <<>>]

\* lines 61-71: the credential, the intent, the empty list
SearchStart ==
    /\ sn_pc = "start"
    /\ IF ~api_key \/ sn_intent \notin INTENTS
       THEN /\ sn_pc' = "done"
            /\ idx' = idx
       ELSE /\ sn_pc' = "pass1"
            /\ idx' = 1
    /\ UNCHANGED <<api_key, sn_intent, all_places, ideal_places, requests, consumed1, skipped_fresh, sn_result>>
    /\ UNCHANGED <<intentVars, rankVars, scoreVars>>

\* lines 74-125: the pass-1 request of one place type
Pass1Request ==
    /\ sn_pc = "pass1"
    /\ idx <= Len(PlaceTypes(sn_intent))
    /\ \E resp \in Responses(idx) :
        LET type == PlaceTypes(sn_intent)[idx]
            new == Pass1Append(all_places, type, resp)
        IN /\ requests' = [requests EXCEPT ![type] = Append(@, [pass |-> 1, failed |-> Failed(resp)])]
           /\ IF resp.kind = "exc" /\ ~CaughtByExcept(resp.exc)
              THEN /\ sn_pc' = "raised"
                   /\ UNCHANGED <<idx, all_places, ideal_places, consumed1>>
              ELSE /\ sn_pc' = sn_pc
                   /\ idx' = NextIdx(idx, resp)
                   /\ all_places' = new
                   /\ ideal_places' = Pass1Append(ideal_places, type, IdealResponse(resp))
                   /\ consumed1' = consumed1 \cup {new[i].place_id : i \in (Len(all_places) + 1)..Len(new)}
    /\ UNCHANGED <<api_key, sn_intent, skipped_fresh, sn_result>>
    /\ UNCHANGED <<intentVars, rankVars, scoreVars>>

\* line 128: after pass 1, a second pass only with fewer than 6 places
Pass1Done ==
    /\ sn_pc = "pass1"
    /\ idx > Len(PlaceTypes(sn_intent))
    /\ IF Len(all_places) < FillTarget
       THEN /\ sn_pc' = "pass2"
            /\ idx' = 1
       ELSE /\ sn_pc' = "dedupe"
            /\ idx' = idx
    /\ UNCHANGED <<api_key, sn_intent, all_places, ideal_places, requests, consumed1, skipped_fresh, sn_result>>
    /\ UNCHANGED <<intentVars, rankVars, scoreVars>>

\* lines 129-185: the pass-2 request of one place type
Pass2Request ==
    /\ sn_pc = "pass2"
    /\ idx <= Len(PlaceTypes(sn_intent))
    /\ Len(all_places) < FillTarget
    /\ \E resp \in Responses(idx) :
        LET type == PlaceTypes(sn_intent)[idx]
        IN /\ requests' = [requests EXCEPT ![type] = Append(@, [pass |-> 2, failed |-> Failed(resp)])]
           /\ IF resp.kind = "exc" /\ ~CaughtByExcept(resp.exc)
              THEN /\ sn_pc' = "raised"
                   /\ UNCHANGED <<idx, all_places, ideal_places, skipped_fresh>>
              ELSE /\ sn_pc' = sn_pc
                   /\ idx' = NextIdx(idx, resp)
                   /\ all_places' = Pass2Append(all_places, type, resp)
                   /\ ideal_places' = Pass2Append(ideal_places, type, IdealResponse(resp))
                   /\ skipped_fresh' = (skipped_fresh \/ ~(Pass2Skipped(all_places, resp) \subseteq consumed1))
    /\ UNCHANGED <<api_key, sn_intent, consumed1, sn_result>>
    /\ UNCHANGED <<intentVars, rankVars, scoreVars>>

\* lines 129-131: the pass-2 loop ends, at the last type or at 6 places
Pass2Done ==
    /\ sn_pc = "pass2"
    /\ idx > Len(PlaceTypes(sn_intent)) \/ Len(all_places) >= FillTarget
    /\ sn_pc' = "dedupe"
    /\ UNCHANGED <<api_key, sn_intent, idx, all_places, ideal_places, requests, consumed1, skipped_fresh, sn_result>>
    /\ UNCHANGED <<intentVars, rankVars, scoreVars>>

\* lines 187-197: deduplicate, limit, return
DedupeReturn ==
    /\ sn_pc = "dedupe"
    /\ sn_result' = Dedupe(all_places)
    /\ sn_pc' = "done"
    /\ UNCHANGED <<api_key, sn_intent, idx, all_places, ideal_places, requests, consumed1, skipped_fresh>>
    /\ UNCHANGED <<intentVars, rankVars, scoreVars>>

NextSearch == SearchStart \/ Pass1Request \/ Pass1Done \/ Pass2Request \/ Pass2Done \/ DedupeReturn

(***************************************************************************)
(* rank, calculate_score, generate_reason                                  *)
(***************************************************************************)
SceneTags == {"night", "indoors", "day"}

\* place.get("distance_m", 9999) <= 1000: (1000 - distance_m) / 500.0, else 0.1
DistanceTerm(d) == IF d <= 1000 THEN 2 * (1000 - d) ELSE 100

\* the rating bonus; a falsy rating (None, 0) gives none
RatingBonus(rating) ==
    IF rating # 0
    THEN IF rating >= 43 THEN 500 ELSE IF rating >= 40 THEN 250 ELSE 0
    ELSE 0

\* the four scene rules, each a tag and the types it favours
SceneRules == {
    [tag |-> "night", types |-> {"bar", "night_club"}],
    [tag |-> "outdoors", types |-> {"park", "cafe"}],
    [tag |-> "indoors", types |-> {"library", "cafe"}],
    [tag |-> "day", types |-> {"park", "cafe"}] }

\* calculate_scene_bias: 0.6 per rule that holds
calculate_scene_bias(place, tags) == 600 * Cardinality({r \in SceneRules : r.tag \in tags /\ place.type \in r.types})

\* matches_scene
matches_scene(place, tags) == \E r \in SceneRules : r.tag \in tags /\ place.type \in r.types

\* is_closing_soon: "For now, we'll assume places are open for a while"
is_closing_soon(place) == FALSE

\* calculate_score (the intent argument is not read)
calculate_score(place, tags) ==
    DistanceTerm(place.distance_m)
    + (IF place.open_now THEN 2000 ELSE 0)
    + RatingBonus(place.rating)
    + calculate_scene_bias(place, tags)
    - (IF is_closing_soon(place) THEN 500 ELSE 0)

\* generate_reason: the segments joined by the bullet
generate_reason(place, tags) ==
    (IF place.distance_m < 1000 THEN << <<"Close", place.distance_m>> >> ELSE << <<"away", place.distance_m>> >>)
    \o (IF place.open_now THEN << <<"open now", 0>> >> ELSE <<>>)
    \o (IF place.rating # 0 THEN << <<"star", place.rating>> >> ELSE <<>>)
    \o (IF matches_scene(place, tags) THEN << <<"matches your vibe", 0>> >> ELSE <<>>)
    \o (IF is_closing_soon(place) THEN << <<"closing soon", 0>> >> ELSE <<>>)

\* A candidate as rank reads it.  `keys` holds the scoring keys the dict
\* carries ("_score", "_reason", "reason"); score and reason are their values.
Candidate(type, d, open, rating) ==
    [type |-> type, distance_m |-> d, open_now |-> open, rating |-> rating,
     keys |-> {}, score |-> 0, reason |-> <<>>]

CandidatePool == {
    Candidate("cafe", 420, TRUE, 45),
    Candidate("bar", 1000, FALSE, 0),
    Candidate("park", 1001, FALSE, 40),
    Candidate("library", 9999, FALSE, 0),
    Candidate("gym", 950, FALSE, 0) }

\* lines 23-25: place["_score"] = ..., place["_reason"] = ...
Scored(place, tags) ==
    [place EXCEPT !.keys = @ \cup {"_score", "_reason"},
                  !.score = calculate_score(place, tags),
                  !.reason = generate_reason(place, tags)]

\* lines 32-33: place.pop("_score", None), place.pop("_reason", None)
Popped(place) ==
    [place EXCEPT !.keys = @ \ {"_score", "_reason"}, !.score = 0, !.reason = <<>>]

\* the position of element i after a stable sort by score, highest first
PositionDesc(ps, i) ==
    1 + Cardinality({j \in 1..Len(ps) : ps[j].score > ps[i].score \/ (ps[j].score = ps[i].score /\ j < i)})

\* (variant: sorted(places, key=...)[::-1], which reverses the ties too)
SortedReversed(ps) ==
    [k \in 1..Len(ps) |-> CHOOSE i \in 1..Len(ps) :
        k = 1 + Cardinality({j \in 1..Len(ps) : ps[j].score > ps[i].score \/ (ps[j].score = ps[i].score /\ j > i)})]

\* line 28: sorted(places, key=lambda x: x["_score"], reverse=True), which is
\* stable; the result lists the same dict objects, here by position in places
Sorted(ps) == [k \in 1..Len(ps) |-> CHOOSE i \in 1..Len(ps) : PositionDesc(ps, i) = k]

\* ranked_places[:3]
TopN == 3

\* lines 19-20: an empty input returns an empty list
RankEmpty ==
    /\ rk_pc = "start"
    /\ places = <<>>
    /\ rk_result' = <<>>
    /\ rk_pc' = "done"
    /\ UNCHANGED <<places, scene_tags, ranked_places>>
    /\ UNCHANGED <<intentVars, searchVars, scoreVars>>

\* lines 22-25: score each place
RankScore ==
    /\ rk_pc = "start"
    /\ places # <<>>
    /\ places' = [i \in 1..Len(places) |-> Scored(places[i], scene_tags)]
    /\ rk_pc' = "scored"
    /\ UNCHANGED <<scene_tags, ranked_places, rk_result>>
    /\ UNCHANGED <<intentVars, searchVars, scoreVars>>

\* lines 27-28: sort by score, highest first
RankSort ==
    /\ rk_pc = "scored"
    /\ ranked_places' = Sorted(places)
    /\ rk_pc' = "sorted"
    /\ UNCHANGED <<places, scene_tags, rk_result>>
    /\ UNCHANGED <<intentVars, searchVars, scoreVars>>

\* lines 30-33: pop the scoring fields of ranked_places[:3]
RankStrip ==
    /\ rk_pc = "sorted"
    /\ places' = [i \in 1..Len(places) |->
                    IF i \in Range(Take(ranked_places, TopN)) THEN Popped(places[i]) ELSE places[i]]
    /\ rk_pc' = "stripped"
    /\ UNCHANGED <<scene_tags, ranked_places, rk_result>>
    /\ UNCHANGED <<intentVars, searchVars, scoreVars>>

\* line 35: return ranked_places[:3]
RankReturn ==
    /\ rk_pc = "stripped"
    /\ rk_result' = Take(ranked_places, TopN)
    /\ rk_pc' = "done"
    /\ UNCHANGED <<places, scene_tags, ranked_places>>
    /\ UNCHANGED <<intentVars, searchVars, scoreVars>>

NextRank == RankEmpty \/ RankScore \/ RankSort \/ RankStrip \/ RankReturn

(***************************************************************************)
(* calculate_score on two candidates that differ only in distance_m        *)
(***************************************************************************)
Distances == {0, 1, 420, 500, 950, 951, 999, 1000, 1001, 1002, 1500, 9999}

Ratings == {0, 39, 40, 43}

ScoreTypes == {"cafe", "bar", "park", "library", "gym"}

\* lines 37-76, once per candidate
ScoreBoth ==
    /\ sc_pc = "start"
    /\ sc_s1' = calculate_score([sc_place EXCEPT !.distance_m = sc_d1], sc_tags)
    /\ sc_s2' = calculate_score([sc_place EXCEPT !.distance_m = sc_d2], sc_tags)
    /\ sc_pc' = "done"
    /\ UNCHANGED <<sc_place, sc_tags, sc_d1, sc_d2>>
    /\ UNCHANGED <<intentVars, searchVars, rankVars>>

NextScore == ScoreBoth

(***************************************************************************)
(* Specifications: one call of one function                                *)
(***************************************************************************)
\* The state in which function `call` is entered with arguments drawn from
\* the bounded sets; the variables of the other functions stay idle.
InitCall(call) ==
    /\ in_pc = IF call = "extract_intent" THEN "start" ELSE "idle"
    /\ query \in IF call = "extract_intent" THEN SeqsUpTo(Alphabet, MaxQueryLen) ELSE {<<>>}
    /\ openai_key \in IF call = "extract_intent" THEN BOOLEAN ELSE {FALSE}
    /\ llm_calls = 0
    /\ llm_response = NoResponse
    /\ in_result = ""
    /\ sn_pc = IF call = "search_nearby" THEN "start" ELSE "idle"
    /\ api_key \in IF call = "search_nearby" THEN BOOLEAN ELSE {FALSE}
    /\ sn_intent \in IF call = "search_nearby" THEN SearchIntents ELSE {""}
    /\ idx = 0
    /\ all_places = <<>>
    /\ ideal_places = <<>>
    /\ requests = NoRequests
    /\ consumed1 = {}
    /\ skipped_fresh = FALSE
    /\ sn_result = <<>>
    /\ rk_pc = IF call = "rank" THEN "start" ELSE "idle"
    /\ places \in IF call = "rank" THEN SeqsUpTo(CandidatePool, MaxRankInput) ELSE {<<>>}
    /\ scene_tags \in IF call = "rank" THEN SUBSET SceneTags ELSE {{}}
    /\ ranked_places = <<>>
    /\ rk_result = <<>>
    /\ sc_pc = IF call = "calculate_score" THEN "start" ELSE "idle"
    /\ sc_place \in IF call = "calculate_score"
                    THEN {Candidate(t, 0, o, r) : t \in ScoreTypes, o \in BOOLEAN, r \in Ratings}
                    ELSE {Candidate("", 0, FALSE, 0)}
    /\ sc_tags \in IF call = "calculate_score" THEN SUBSET SceneTags ELSE {{}}
    /\ sc_d1 \in IF call = "calculate_score" THEN Distances ELSE {0}
    /\ sc_d2 \in IF call = "calculate_score" THEN Distances ELSE {0}
    /\ sc_s1 = 0
    /\ sc_s2 = 0

SpecIntent == InitCall("extract_intent") /\ [][NextIntent]_vars

SpecSearch == InitCall("search_nearby") /\ [][NextSearch]_vars

SpecRank == InitCall("rank") /\ [][NextRank]_vars

SpecScore == InitCall("calculate_score") /\ [][NextScore]_vars

Init == \E call \in {"extract_intent", "search_nearby", "rank", "calculate_score"} : InitCall(call)

Next == NextIntent \/ NextSearch \/ NextRank \/ NextScore

Spec == Init /\ [][Next]_vars

(***************************************************************************)
(* Properties                                                              *)
(***************************************************************************)
PlaceIds(s) == {s[i].place_id : i \in 1..Len(s)}

HasDuplicates(s) == \E i, j \in 1..Len(s) : i # j /\ s[i].place_id = s[j].place_id

\* C1: the list search_nearby returns has at most 6 elements and no two of
\* them share a place_id, whatever the credential, the intent and the
\* directory's responses were.
C1_AtMostSixDistinct ==
    sn_pc = "done" => Len(sn_result) <= 6 /\ ~HasDuplicates(sn_result)

\* C1 at work: more than 6 candidates with repeated place_ids were collected,
\* and 6 distinct ones are returned.
C1_Witness ==
    /\ sn_pc = "done"
    /\ Len(all_places) > 6
    /\ HasDuplicates(all_places)
    /\ Cardinality(PlaceIds(all_places)) > 6
    /\ Len(sn_result) = 6

\* the total score of the i-th input candidate
TotalScore(i) == calculate_score(places[i], scene_tags)

\* C2: rank returns exactly min(3, n) of its n input candidates, each once,
\* by non-increasing total score, equal scores in input order, and no
\* omitted candidate scores strictly higher than a returned one.
C2_TopThreeStable ==
    rk_pc = "done" =>
        /\ Len(rk_result) = (IF Len(places) < 3 THEN Len(places) ELSE 3)
        /\ \A k \in 1..Len(rk_result) : rk_result[k] \in 1..Len(places)
        /\ \A k, l \in 1..Len(rk_result) : k < l =>
              /\ rk_result[k] # rk_result[l]
              /\ TotalScore(rk_result[k]) >= TotalScore(rk_result[l])
              /\ TotalScore(rk_result[k]) = TotalScore(rk_result[l]) => rk_result[k] < rk_result[l]
        /\ \A j \in 1..Len(places) : j \notin Range(rk_result) =>
              \A k \in 1..Len(rk_result) : TotalScore(j) <= TotalScore(rk_result[k])

\* C2 at work: more than 3 candidates, two returned ones tie, the returned
\* order differs from the input order, and an omitted one scores lower.
C2_Witness ==
    /\ rk_pc = "done"
    /\ Len(places) > 3
    /\ Len(rk_result) = 3
    /\ \E k \in 1..2 : TotalScore(rk_result[k]) = TotalScore(rk_result[k + 1])
    /\ \E k \in 1..2 : rk_result[k] > rk_result[k + 1]
    /\ \E j \in 1..Len(places) : j \notin Range(rk_result) /\ TotalScore(j) < TotalScore(rk_result[3])

\* C3: every candidate rank returns carries its reason string, the one
\* generate_reason gives for it and the scene tags.
C3_ReturnedCarryReason ==
    rk_pc = "done" =>
        \A k \in 1..Len(rk_result) :
            LET p == places[rk_result[k]]
            IN /\ p.keys \cap {"_reason", "reason"} # {}
               /\ p.reason = generate_reason(p, scene_tags)

\* C4: after rank returns, no candidate of the input list, returned or not,
\* carries a transient scoring field (_score, _reason).
C4_AllStripped ==
    rk_pc = "done" =>
        \A i \in 1..Len(places) : places[i].keys \cap {"_score", "_reason"} = {}

\* C5: when the lower-cased query contains a keyword of some intent,
\* extract_intent returns the first such intent in configuration order and
\* never consults the classifier.
C5_FirstMatchWins ==
    Matching(query) # {} =>
        /\ llm_calls = 0
        /\ in_pc \in {"start", "done"}
        /\ in_pc = "done" =>
              \E i \in Matching(query) :
                  /\ in_result = VIBE_MAPPER[i].intent
                  /\ \A j \in 1..(i - 1) : j \notin Matching(query)

\* C5 at work: keywords of two intents match a query with an upper-case
\* letter, a credential is configured, and the call has returned.
C5_Witness ==
    /\ in_pc = "done"
    /\ Cardinality(Matching(query)) >= 2
    /\ Lower(query) # query
    /\ Matching(query) # {i \in 1..Len(VIBE_MAPPER) : AnyKeyword(VIBE_MAPPER[i], query)}
    /\ openai_key

C7_FailureIsEmptyOK ==
    /\ sn_pc # "raised"
    /\ all_places = ideal_places
    /\ sn_pc = "done" => sn_result = Dedupe(ideal_places)

\* C7 at work: the pass-1 request of one place type failed, the pass-2 request
\* of one failed, and candidates of the other requests are returned.
C7_Witness ==
    /\ sn_pc = "done"
    /\ \E t \in TYPES : requests[t] # <<>> /\ requests[t][1].failed
    /\ \E t \in TYPES : Len(requests[t]) = 2 /\ requests[t][2].failed
    /\ sn_result # <<>>

\* C8: every result pass 2 skips (the first 3 of a pass-2 response) was
\* appended to the candidate list during pass 1 of the same call.
C8_SkippedWereConsumed == ~skipped_fresh

C10_CloserIsHigher ==
    sc_pc = "done" =>
        /\ DistanceTerm(sc_d1) \in 0..2000
        /\ DistanceTerm(sc_d2) \in 0..2000
        /\ sc_d1 < sc_d2 => sc_s1 >= sc_s2

====
